---- MODULE Spec2Model ----
(***************************************************************************)
(* kvx: Model, a record layer over Deno.Kv (src/lib/model.ts).             *)
(*                                                                         *)
(* The store is a map from keys (tuples of key parts) to JavaScript        *)
(* values.  A Model owns the primary keys [key, id] and, per indexed       *)
(* field, the index keys [key + "_by_" + field, value].                    *)
(***************************************************************************)
EXTENDS Integers, Sequences, FiniteSets, TLC

(***************************************************************************)
(* Bounds.                                                                 *)
(***************************************************************************)
\* How many identifiers crypto.randomUUID() hands out in one run.
MaxIds == 2

UUIDs == <<"id1", "id2", "id3", "id4">>

\* The identifiers crypto.randomUUID() can return.
Ids == {UUIDs[i] : i \in 1..MaxIds}

\* The callers that may have an asynchronous call in flight.
Callers == {"c1"}

(***************************************************************************)
(* JavaScript values.                                                      *)
(***************************************************************************)
\* A property that an object does not have reads as undefined.
Undefined == "undefined"

Null == [type |-> "null"]

\* The property names of the records of this model.
AllFields == {"id", "name", "email"}

\* The object literal {}.
EmptyProps == [f \in AllFields |-> Undefined]

Obj(props) == [type |-> "object", props |-> props]

Str(s) == [type |-> "string", str |-> s]

\* A pending or settled Promise: an object with no own enumerable property.
PromiseOf(v) == [type |-> "promise", of |-> v]

\* Deno.KvEntryMaybe<T>: { key, value, versionstamp }, value null when absent.
Entry(key, value) == [type |-> "entry", key |-> key, value |-> value]

\* ToBoolean: null, undefined and "" are falsy, every object is truthy.
Truthy(v) ==
    CASE v.type = "null" -> FALSE
      [] v.type = "undefined" -> FALSE
      [] v.type = "string" -> v.str # ""
      [] OTHER -> TRUE

\* The own enumerable properties an object spread {...v} copies.
OwnProps(v) == IF v.type = "object" THEN v.props ELSE EmptyProps

\* The object literal { ...a, ...b }: b's properties overwrite a's.
Spread(a, b) == [f \in AllFields |-> IF b[f] # Undefined THEN b[f] ELSE a[f]]

\* v[field] for a stored value v.
Prop(v, field) == IF v.type = "object" THEN v.props[field] ELSE Undefined

(***************************************************************************)
(* Deno.Kv: get, set, list and atomic().set().delete().commit().           *)
(***************************************************************************)
\* A Deno.KvKeyPart is a string, number, bigint, boolean or Uint8Array.
ValidKey(key) == \A i \in 1..Len(key) : key[i] # Undefined

KvGet(store, key) ==
    Entry(key, IF key \in DOMAIN store THEN store[key] ELSE Null)

KvSet(store, key, value) ==
    [k \in (DOMAIN store) \cup {key} |-> IF k = key THEN value ELSE store[k]]

KvDelete(store, key) ==
    [k \in (DOMAIN store) \ {key} |-> store[k]]

\* One mutation of an atomic operation.
SetMut(key, value) == [kind |-> "set", key |-> key, value |-> value]

DeleteMut(key) == [kind |-> "delete", key |-> key, value |-> Null]

ApplyMut(store, mut) ==
    IF mut.kind = "set" THEN KvSet(store, mut.key, mut.value)
    ELSE KvDelete(store, mut.key)

RECURSIVE ApplyAll(_, _)
ApplyAll(store, muts) ==
    IF muts = <<>> THEN store
    ELSE ApplyAll(ApplyMut(store, Head(muts)), Tail(muts))

\* commit(): all mutations are applied, or (a key part that is no
\* KvKeyPart) the call throws a TypeError and none is.
Commit(store, muts) ==
    IF \A i \in 1..Len(muts) : ValidKey(muts[i].key)
    THEN [ok |-> TRUE, store |-> ApplyAll(store, muts)]
    ELSE [ok |-> FALSE, store |-> store]

\* The order of key parts in the store (strings order lexicographically).
PartOrder == <<"id1", "id2", "id3", "id4", "n", "x", "z">>

Rank(part) == CHOOSE i \in 1..Len(PartOrder) : PartOrder[i] = part

\* list({ prefix }): the entries whose key starts with prefix and is longer,
\* in key order.
KvList(store, prefix) ==
    LET keys == {k \in DOMAIN store :
                    /\ Len(k) > Len(prefix)
                    /\ \A i \in 1..Len(prefix) : k[i] = prefix[i]}
        n == Cardinality(keys)
        order == CHOOSE s \in [1..n -> keys] :
                    \A i, j \in 1..n :
                        i < j => Rank(s[i][Len(prefix) + 1]) < Rank(s[j][Len(prefix) + 1])
    IN  [i \in 1..n |-> Entry(order[i], store[order[i]])]

(***************************************************************************)
(* Model.                                                                  *)
(***************************************************************************)
\* userSchema of the documentation: name and email, both required.
UserFields == [name |-> {"n"}, email |-> {"x", "z"}]

\* model("user", userSchema, ["email"])
User == [key |-> "user", fields |-> UserFields, optional |-> {},
         indexes |-> <<"email">>]

\* The values of type T = z.infer<Schema>.
ValuesOf(m) ==
    {v \in [AllFields -> {Undefined} \cup UNION {m.fields[f] : f \in DOMAIN m.fields}] :
        /\ \A f \in AllFields \ DOMAIN m.fields : v[f] = Undefined
        /\ \A f \in DOMAIN m.fields :
              \/ v[f] \in m.fields[f]
              \/ f \in m.optional /\ v[f] = Undefined}

\* The values of type Partial<T>.
PartialsOf(m) ==
    {v \in [AllFields -> {Undefined} \cup UNION {m.fields[f] : f \in DOMAIN m.fields}] :
        /\ \A f \in AllFields \ DOMAIN m.fields : v[f] = Undefined
        /\ \A f \in DOMAIN m.fields : v[f] \in m.fields[f] \cup {Undefined}}

\* Mutant of IndexName: the index entries go under the collection's own name.
IndexName_SameAsKey(key, index) == key

\* `${this.key}_by_${index}`
IndexName(key, index) == key \o "_by_" \o index

PrimaryKey(m, id) == <<m.key, id>>

IndexKey(m, index, value) == <<IndexName(m.key, index), value>>

VARIABLES
    kv,         \* the Deno.Kv store: key -> value
    models,     \* the Model objects constructed
    generated,  \* the identifiers crypto.randomUUID() has returned
    deleted,    \* the identifiers whose delete has committed
    inflight,   \* per caller: the call suspended at an await
    last        \* the call that completed last, and its outcome

vars == <<kv, models, generated, deleted, inflight, last>>

Idle == [pc |-> "idle"]

NoCall == [op |-> "none"]

Init ==
    /\ kv = <<>>
    /\ models = {User}
    /\ generated = {}
    /\ deleted = {}
    /\ inflight = [c \in Callers |-> Idle]
    /\ last = NoCall

(***************************************************************************)
(* create                                                                  *)
(***************************************************************************)
\* Mutant of CreateData: the identifier is left out of the record.
CreateData_WithoutId(value, id) == Obj(value)

\* const data = { ...value, id }
CreateData(value, id) == Obj(Spread(value, [EmptyProps EXCEPT !["id"] = id]))

\* Mutant of CreateMuts: the index entries are not written.
CreateMuts_PrimaryOnly(m, value, id) ==
    <<SetMut(PrimaryKey(m, id), CreateData(value, id))>>

\* kv.atomic().set(key, data), then per index .set(indexKey, id)
CreateMuts(m, value, id) ==
    <<SetMut(PrimaryKey(m, id), CreateData(value, id))>> \o
    [i \in 1..Len(m.indexes) |->
        SetMut(IndexKey(m, m.indexes[i], value[m.indexes[i]]), Str(id))]

Create(m, value, id) ==
    LET res == Commit(kv, CreateMuts(m, value, id))
    IN  /\ id \in Ids \ generated
        /\ generated' = generated \cup {id}
        /\ kv' = res.store
        /\ last' = [op |-> "create", id |-> id,
                    res |-> IF res.ok THEN "ok" ELSE "error"]
        /\ UNCHANGED <<models, deleted, inflight>>

(***************************************************************************)
(* find, findAll, findByIndex                                              *)
(***************************************************************************)
Find(store, m, id) == KvGet(store, PrimaryKey(m, id))

FindAll(store, m) == KvList(store, <<m.key>>)

\* undefined when the index entry is missing, else the entry of the record.
FindByIndex(store, m, index, value) ==
    LET id == KvGet(store, IndexKey(m, index, value))
    IN  IF ~Truthy(id) \/ ~Truthy(id.value)
        THEN [type |-> "undefined"]
        ELSE KvGet(store, PrimaryKey(m, id.value.str))

(***************************************************************************)
(* update                                                                  *)
(***************************************************************************)
\* const data = kv.get(key): the promise, not awaited.
UpdateData(store, key) == PromiseOf(KvGet(store, key))

\* const newData = { ...data, ...value }
UpdateNewData(data, value) == Obj(Spread(OwnProps(data), value))

Update(m, id, value) ==
    LET key == PrimaryKey(m, id)
        data == UpdateData(kv, key)
    IN  /\ id \in generated
        /\ IF ~Truthy(data)
           THEN /\ kv' = kv
                /\ last' = [op |-> "update", id |-> id, res |-> "notfound"]
           ELSE /\ kv' = KvSet(kv, key, UpdateNewData(data, value))
                /\ last' = [op |-> "update", id |-> id, res |-> "ok"]
        /\ UNCHANGED <<models, generated, deleted, inflight>>

(***************************************************************************)
(* delete                                                                  *)
(***************************************************************************)
\* Mutant of DeleteNotFound: only the entry is tested, not its value.
DeleteNotFound_EntryOnly(data) == ~Truthy(data)

\* if (!data || !data.value) return
DeleteNotFound(data) == ~Truthy(data) \/ ~Truthy(data.value)

\* Mutant of DeleteMuts: the index entries are not deleted.
DeleteMuts_PrimaryOnly(m, id, data) == <<DeleteMut(PrimaryKey(m, id))>>

\* kv.atomic().delete(key), then per index .delete(indexKey)
DeleteMuts(m, id, data) ==
    <<DeleteMut(PrimaryKey(m, id))>> \o
    [i \in 1..Len(m.indexes) |->
        DeleteMut(IndexKey(m, m.indexes[i], Prop(data.value, m.indexes[i])))]

\* const data = await kv.get(key), and the return when nothing is there.
DeleteGet(c, m, id) ==
    LET data == KvGet(kv, PrimaryKey(m, id))
    IN  /\ inflight[c] = Idle
        /\ id \in generated
        /\ IF DeleteNotFound(data)
           THEN /\ inflight' = inflight
                /\ last' = [op |-> "delete", id |-> id, res |-> "notfound"]
           ELSE /\ inflight' = [inflight EXCEPT ![c] =
                        [pc |-> "delete", model |-> m, id |-> id, data |-> data]]
                /\ last' = last
        /\ UNCHANGED <<kv, models, generated, deleted>>

\* The atomic operation built from data, and its commit.
DeleteCommit(c) ==
    /\ inflight[c].pc = "delete"
    /\ LET call == inflight[c]
           res == Commit(kv, DeleteMuts(call.model, call.id, call.data))
       IN  /\ kv' = res.store
           /\ deleted' = IF res.ok THEN deleted \cup {call.id} ELSE deleted
           /\ last' = [op |-> "delete", id |-> call.id,
                       res |-> IF res.ok THEN "ok" ELSE "error"]
    /\ inflight' = [inflight EXCEPT ![c] = Idle]
    /\ UNCHANGED <<models, generated>>

\* delete run to completion: the read, then the commit of what it read.
Delete(m, id) ==
    LET data == KvGet(kv, PrimaryKey(m, id))
        res == Commit(kv, DeleteMuts(m, id, data))
    IN  /\ id \in generated
        /\ IF DeleteNotFound(data)
           THEN /\ kv' = kv
                /\ deleted' = deleted
                /\ last' = [op |-> "delete", id |-> id, res |-> "notfound"]
           ELSE /\ kv' = res.store
                /\ deleted' = IF res.ok THEN deleted \cup {id} ELSE deleted
                /\ last' = [op |-> "delete", id |-> id,
                            res |-> IF res.ok THEN "ok" ELSE "error"]
        /\ UNCHANGED <<models, generated, inflight>>

\* Calls issued one after the other, each awaited before the next.
Next ==
    \/ \E m \in models, id \in Ids : \E value \in ValuesOf(m) : Create(m, value, id)
    \/ \E m \in models, id \in Ids : \E value \in PartialsOf(m) : Update(m, id, value)
    \/ \E m \in models, id \in Ids : Delete(m, id)

Spec == Init /\ [][Next]_vars

\* Calls of several callers, interleaved at their awaits.
NextConcurrent ==
    \/ \E m \in models, id \in Ids : \E value \in ValuesOf(m) : Create(m, value, id)
    \/ \E m \in models, id \in Ids : \E value \in PartialsOf(m) : Update(m, id, value)
    \/ \E c \in Callers, m \in models, id \in Ids : DeleteGet(c, m, id)
    \/ \E c \in Callers : DeleteCommit(c)

SpecConcurrent == Init /\ [][NextConcurrent]_vars

\* No call is suspended at an await.
Quiescent == \A c \in Callers : inflight[c] = Idle

(***************************************************************************)
(* What a caller observes.                                                 *)
(***************************************************************************)
\* A read that found nothing: undefined, or an entry whose value is null.
Absent(r) == r.type = "undefined" \/ (r.type = "entry" /\ r.value.type = "null")

\* A read that returned the stored value `value`.
Returned(r, value) == r.type = "entry" /\ r.value = value

\* The record stored under (m.key, id) is live.
Live(store, m, id) == ~Absent(Find(store, m, id))

\* The record { ...fields, id }.
RecordOf(fields, id) ==
    [type |-> "object",
     props |-> [f \in AllFields |-> IF f = "id" THEN id ELSE fields[f]]]

(***************************************************************************)
(* C1. Once the calls have completed, every live record R with value V at  *)
(* an indexed field F is what findByIndex(F, V) returns.  Stated for the   *)
(* records that alone hold V at F: of two records that share V the index   *)
(* points to one (C10), so the claim fails there already.                  *)
(***************************************************************************)
C1_FindByIndexReturnsEveryLiveRecord ==
    Quiescent =>
        \A m \in models, id \in Ids :
            \A i \in 1..Len(m.indexes) :
                LET F == m.indexes[i]
                    R == Find(kv, m, id)
                    V == Prop(R.value, F)
                    alone == \A other \in Ids \ {id} :
                                Prop(Find(kv, m, other).value, F) # V
                IN  (Live(kv, m, id) /\ V # Undefined /\ alone) =>
                        Returned(FindByIndex(kv, m, F, V), R.value)

(***************************************************************************)
(* C2. Once the calls have completed, every index entry (F, V) -> id       *)
(* points to a primary record that exists and holds V at F.                *)
(***************************************************************************)
C2_NoDanglingOrStaleIndexEntry ==
    Quiescent =>
        \A m \in models, key \in DOMAIN kv :
            \A i \in 1..Len(m.indexes) :
                key[1] = IndexName(m.key, m.indexes[i]) =>
                    /\ Live(kv, m, kv[key].str)
                    /\ Prop(Find(kv, m, kv[key].str).value, m.indexes[i]) = key[2]

(***************************************************************************)
(* C3. update of a live record overwrites the fields of the partial value  *)
(* and keeps every other field and the identifier.                         *)
(***************************************************************************)
C3_UpdatePreservesUnspecifiedFields ==
    [][\A m \in models, id \in Ids : \A value \in PartialsOf(m) :
          (Update(m, id, value) /\ Live(kv, m, id)) =>
              LET old == Find(kv, m, id).value
                  new == Find(kv', m, id).value
              IN  /\ Live(kv', m, id)
                  /\ \A f \in AllFields :
                        Prop(new, f) = IF value[f] # Undefined THEN value[f]
                                       ELSE Prop(old, f)]_vars

(***************************************************************************)
(* C4. update of a live record that changes indexed field F from V to W    *)
(* makes findByIndex(F, V) absent and findByIndex(F, W) the record.        *)
(***************************************************************************)
C4_UpdateReindexes ==
    [][\A m \in models, id \in Ids : \A value \in PartialsOf(m) :
          \A i \in 1..Len(m.indexes) :
              LET F == m.indexes[i]
                  V == Prop(Find(kv, m, id).value, F)
                  W == value[F]
              IN  (/\ Update(m, id, value)
                   /\ Live(kv, m, id)
                   /\ Returned(FindByIndex(kv, m, F, V), Find(kv, m, id).value)
                   /\ W # Undefined
                   /\ W # V) =>
                      /\ Absent(FindByIndex(kv', m, F, V))
                      /\ Live(kv', m, id)
                      /\ Returned(FindByIndex(kv', m, F, W), Find(kv', m, id).value)]_vars

(***************************************************************************)
(* C5. update on an identifier with no live record signals "not found"     *)
(* and leaves the store, and so the findAll snapshot, unchanged.           *)
(***************************************************************************)
C5_UpdateOfAbsentRecordIsNoOp ==
    [][\A m \in models, id \in Ids : \A value \in PartialsOf(m) :
          (Update(m, id, value) /\ ~Live(kv, m, id)) =>
              /\ last'.res = "notfound"
              /\ kv' = kv
              /\ FindAll(kv', m) = FindAll(kv, m)]_vars
(***************************************************************************)
(* C6. create(C, v) followed by find(C, id) for the generated id returns   *)
(* v plus the field id set to that identifier.                             *)
(***************************************************************************)
C6_CreateThenFindRoundTrip ==
    [][last'.op = "create" =>
          \A m \in models : \A value \in ValuesOf(m) :
              LET id == last'.id
              IN  Create(m, value, id) =>
                      Returned(Find(kv', m, id), RecordOf(value, id))]_vars

C6_Witness ==
    /\ last.op = "create"
    /\ last.res = "ok"
    /\ \E m \in models : \E value \in ValuesOf(m) :
          Returned(Find(kv, m, last.id), RecordOf(value, last.id))

C8_FindAllEnumeratesLiveRecords ==
    Quiescent =>
        \A m \in models :
            LET all == FindAll(kv, m)
            IN  /\ Len(all) = Cardinality(generated) - Cardinality(deleted)
                /\ {all[i].key[2] : i \in 1..Len(all)} = generated \ deleted
                /\ \A i, j \in 1..Len(all) : i # j => all[i].key # all[j].key

(***************************************************************************)
(* C9. delete on an identifier with no live record signals "not found"     *)
(* and leaves every primary record and every index entry unchanged.        *)
(***************************************************************************)
C9_DeleteOfAbsentRecordIsNoOp ==
    [][\A m \in models, id \in Ids :
          (~Live(kv, m, id) /\ Delete(m, id)) =>
              /\ last'.res = "notfound"
              /\ kv' = kv]_vars

C9_Witness ==
    /\ last.op = "delete"
    /\ last.res = "notfound"
    /\ \E m \in models : ~Live(kv, m, last.id)
    /\ kv # <<>>

(***************************************************************************)
(* C10. The index is last-writer-wins and enforces no uniqueness: a        *)
(* create of b carrying value V at indexed field F, while a live record a  *)
(* holds V at F, succeeds, leaves a as it is, makes b findable by id, and  *)
(* makes findByIndex(F, V) return b.                                       *)
(***************************************************************************)
C10_IndexIsLastWriterWins ==
    [][last'.op = "create" =>
          \A m \in models, a \in Ids : \A value \in ValuesOf(m) :
              \A i \in 1..Len(m.indexes) :
                  LET F == m.indexes[i]
                      V == value[F]
                      b == last'.id
                  IN  (/\ V # Undefined
                       /\ Live(kv, m, a)
                       /\ Prop(Find(kv, m, a).value, F) = V
                       /\ Create(m, value, b)) =>
                          /\ last'.res = "ok"
                          /\ Live(kv', m, a)
                          /\ Find(kv', m, a) = Find(kv, m, a)
                          /\ Returned(Find(kv', m, b), RecordOf(value, b))
                          /\ Returned(FindByIndex(kv', m, F, V), RecordOf(value, b))]_vars

C10_Witness ==
    /\ last.op = "create"
    /\ last.res = "ok"
    /\ \E m \in models, a \in Ids : \E i \in 1..Len(m.indexes) :
          LET F == m.indexes[i]
              V == Prop(Find(kv, m, last.id).value, F)
          IN  /\ a # last.id
              /\ Live(kv, m, a)
              /\ Live(kv, m, last.id)
              /\ V # Undefined
              /\ Prop(Find(kv, m, a).value, F) = V
              /\ Returned(FindByIndex(kv, m, F, V), Find(kv, m, last.id).value)
(***************************************************************************)
(* C11. No partially applied mutation is observable: under any             *)
(* interleaving, a store step that changes the value a primary record      *)
(* holds at an indexed field F (by writing or removing the record) leaves  *)
(* the index entries of that change applied too: the entry of the new      *)
(* value points to the record, the entry of the old value no longer does.  *)
(***************************************************************************)
C11_NoPartiallyAppliedMutation ==
    [][\A m \in models, id \in Ids : \A i \in 1..Len(m.indexes) :
          LET F == m.indexes[i]
              old == Prop(Find(kv, m, id).value, F)
              new == Prop(Find(kv', m, id).value, F)
          IN  old # new =>
                  /\ new # Undefined =>
                        Returned(KvGet(kv', IndexKey(m, F, new)), Str(id))
                  /\ old # Undefined =>
                        ~Returned(KvGet(kv', IndexKey(m, F, old)), Str(id))]_vars

(***************************************************************************)
(* C12. findByIndex(C, F, V) returns absent when the index entry (F, V) is *)
(* missing and when the entry points to an absent primary record; in the   *)
(* latter case what is returned does not contain the dangling identifier.  *)
(***************************************************************************)
C12_FindByIndexHidesDanglingIdentifier ==
    \A m \in models, key \in DOMAIN kv : \A i \in 1..Len(m.indexes) :
        LET F == m.indexes[i]
            r == FindByIndex(kv, m, F, key[2])
        IN  (key[1] = IndexName(m.key, F) /\ ~Live(kv, m, kv[key].str)) =>
                /\ Absent(r)
                /\ r.type = "entry" => \A j \in 1..Len(r.key) : r.key[j] # kv[key].str

(***************************************************************************)
(* C13. delete(C, id) leaves unchanged every index entry whose stored      *)
(* identifier is not id, also when the deleted record holds the same value *)
(* at the indexed field as another live record.                            *)
(***************************************************************************)
C13_DeleteKeepsIndexEntriesOfOtherRecords ==
    [][\A m \in models, id \in Ids :
          Delete(m, id) =>
              \A key \in DOMAIN kv : \A i \in 1..Len(m.indexes) :
                  (key[1] = IndexName(m.key, m.indexes[i]) /\ kv[key] # Str(id)) =>
                      Returned(KvGet(kv', key), kv[key])]_vars

(***************************************************************************)
(* C14. Identifier stability: in every reachable state every primary       *)
(* entry stored under (C, id) holds a record whose id field is id.         *)
(***************************************************************************)
C14_StoredRecordKeepsItsIdentifier ==
    \A m \in models, id \in Ids :
        Live(kv, m, id) => Prop(Find(kv, m, id).value, "id") = id

(***************************************************************************)
(* C15. A deleted identifier never becomes live again: once delete(C, id)  *)
(* has committed, find(C, id) returns no record, whatever calls follow or  *)
(* are in flight.                                                          *)
(***************************************************************************)
C15_DeletedIdentifierStaysAbsent ==
    \A m \in models, id \in deleted : ~Live(kv, m, id)

(***************************************************************************)
(* C16. Concurrent updates are last-commit-wins with a consistent index:   *)
(* when an update of a live record commits after another update of the     *)
(* same record, the stored record is what it found merged with its partial *)
(* value, and the index entries of the record match the stored record.     *)
(***************************************************************************)
C16_LastUpdateWinsWithConsistentIndex ==
    [][\A m \in models, id \in Ids : \A value \in PartialsOf(m) :
          (/\ last.op = "update"
           /\ last.id = id
           /\ Live(kv, m, id)
           /\ Update(m, id, value)) =>
              LET old == Find(kv, m, id).value
                  new == Find(kv', m, id).value
              IN  /\ new = Obj(Spread(OwnProps(old), value))
                  /\ \A i \in 1..Len(m.indexes) :
                        Prop(new, m.indexes[i]) # Undefined =>
                            Returned(KvGet(kv', IndexKey(m, m.indexes[i],
                                                         Prop(new, m.indexes[i]))),
                                     Str(id))]_vars
(***************************************************************************)
(* A schema whose indexed field is optional.                               *)
(***************************************************************************)
\* model("user", z.object({ name, email: z.string().email().optional() }),
\*       ["email"])
UserOptional == [key |-> "user", fields |-> UserFields, optional |-> {"email"},
                 indexes |-> <<"email">>]

InitOptional ==
    /\ kv = <<>>
    /\ models = {UserOptional}
    /\ generated = {}
    /\ deleted = {}
    /\ inflight = [c \in Callers |-> Idle]
    /\ last = NoCall

SpecOptional == InitOptional /\ [][Next]_vars

\* The entries of the store in the index keyspace of field F of m.
IndexKeyspace(store, m, F) ==
    {<<key, store[key]>> : key \in {k \in DOMAIN store : k[1] = IndexName(m.key, F)}}

(***************************************************************************)
(* C17. create(C, value) with an indexed field F absent from value still   *)
(* commits the primary record and writes no entry in the index keyspace    *)
(* of F.                                                                   *)
(***************************************************************************)
C17_CreateSkipsAbsentIndexedField ==
    [][\A m \in models, id \in Ids : \A value \in ValuesOf(m) :
          \A i \in 1..Len(m.indexes) :
              (Create(m, value, id) /\ value[m.indexes[i]] = Undefined) =>
                  /\ Returned(Find(kv', m, id), RecordOf(value, id))
                  /\ IndexKeyspace(kv', m, m.indexes[i])
                        = IndexKeyspace(kv, m, m.indexes[i])]_vars

(***************************************************************************)
(* C18. delete(C, id) of a live record that lacks an indexed field F       *)
(* issues no delete in the index keyspace of F, still removes the primary  *)
(* record and the index entries of the indexed fields the record holds,    *)
(* and leaves the index keyspace of F unchanged.                           *)
(***************************************************************************)
C18_DeleteSkipsAbsentIndexedField ==
    [][\A m \in models, id \in Ids : \A i \in 1..Len(m.indexes) :
          LET F == m.indexes[i]
              data == Find(kv, m, id)
              muts == DeleteMuts(m, id, data)
          IN  (Delete(m, id) /\ Live(kv, m, id) /\ Prop(data.value, F) = Undefined) =>
                  /\ \A j \in 1..Len(muts) : muts[j].key[1] # IndexName(m.key, F)
                  /\ Absent(Find(kv', m, id))
                  /\ IndexKeyspace(kv', m, F) = IndexKeyspace(kv, m, F)
                  /\ \A j \in 1..Len(m.indexes) :
                        Prop(data.value, m.indexes[j]) # Undefined =>
                            Absent(KvGet(kv', IndexKey(m, m.indexes[j],
                                                       Prop(data.value, m.indexes[j]))))]_vars
(***************************************************************************)
(* An identifier generator that repeats.                                   *)
(***************************************************************************)
\* create when crypto.randomUUID() returns an identifier handed out before.
CreateColliding(m, value, id) ==
    LET res == Commit(kv, CreateMuts(m, value, id))
    IN  /\ id \in generated
        /\ kv' = res.store
        /\ last' = [op |-> "create", id |-> id,
                    res |-> IF res.ok THEN "ok" ELSE "error"]
        /\ UNCHANGED <<models, generated, deleted, inflight>>

NextCollision ==
    \/ Next
    \/ \E m \in models, id \in Ids : \E value \in ValuesOf(m) :
          CreateColliding(m, value, id)

SpecCollision == Init /\ [][NextCollision]_vars

(***************************************************************************)
(* C19. create never overwrites an existing record: when the identifier    *)
(* it chose already has a primary record, the commit reports a failure and *)
(* neither that record nor any index entry is changed.                     *)
(***************************************************************************)
C19_CreateNeverOverwrites ==
    [][\A m \in models, id \in Ids : \A value \in ValuesOf(m) :
          (CreateColliding(m, value, id) /\ Live(kv, m, id)) =>
              /\ last'.res # "ok"
              /\ kv' = kv]_vars
(***************************************************************************)
(* Two collections in one store.                                           *)
(***************************************************************************)
\* model(key, z.object({ email: z.string() }), ["email"])
Indexed(key) == [key |-> key, fields |-> [email |-> {"x"}], optional |-> {},
                 indexes |-> <<"email">>]

\* model(key, z.object({ name: z.string() })): a collection with no index.
Named(key) == [key |-> key, fields |-> [name |-> {"n"}], optional |-> {},
               indexes |-> <<>>]

\* The names the second collection may have.
OtherNames == {"post", "user_by_email"}

InitShared ==
    /\ kv = <<>>
    /\ models \in {{Indexed("user"), Named(key)} : key \in OtherNames}
    /\ generated = {}
    /\ deleted = {}
    /\ inflight = [c \in Callers |-> Idle]
    /\ last = NoCall

SpecShared == InitShared /\ [][Next]_vars

\* findAll(m) yields records stored under an identifier only: no index
\* pointer, no key of an index keyspace.
YieldsRecordsOnly(m) ==
    LET all == FindAll(kv, m)
    IN  \A i \in 1..Len(all) :
            /\ all[i].value.type = "object"
            /\ all[i].key[2] \in Ids

\* No collection is named like the index keyspace of a collection.
NoNameClash ==
    \A m \in models, other \in models : \A i \in 1..Len(other.indexes) :
        m.key # other.key \o "_by_" \o other.indexes[i]

====
